---------------------------- MODULE Spec2Model ----------------------------
(***************************************************************************)
(* Model of the model-artifact download and cache engine of llm-service:   *)
(*   scripts/download_model.py  (ModelDownloader, RetryPolicy) -- "script" *)
(*   downloader/hf.py           (ModelDownloader)              -- "hf"     *)
(* The cache directory is a set of files; a file is a record               *)
(* [sub, name] where name is the file name split at its dots and sub says  *)
(* whether the file lies in a subdirectory of the cache directory.         *)
(* A missing directory is the empty set of files (both verifiers answer    *)
(* False for either).                                                      *)
(***************************************************************************)
EXTENDS Integers, Sequences, FiniteSets, TLC

\* ------------------------------------------------------------------ bounds
\* the remote fails at most this many invocations in a row before it succeeds
MaxFails == 3
\* largest max_retries handed to a RetryPolicy that is used on its own
MaxRetriesArg == 3

\* ------------------------------------------------------- program constants
MAX_RETRIES == 3
RETRY_DELAY == 1
HF_MAX_RETRIES == 3

\* ------------------------------------------------------------ file names
File(sub, name) == [sub |-> sub, name |-> name]

ConfigJson          == File(FALSE, <<"config", "json">>)
TokenizerJson       == File(FALSE, <<"tokenizer", "json">>)
TokenizerConfigJson == File(FALSE, <<"tokenizer_config", "json">>)
ModelSafetensors    == File(FALSE, <<"model", "safetensors">>)
PytorchModelBin     == File(FALSE, <<"pytorch_model", "bin">>)
ShardSafetensors    == File(TRUE,  <<"shard", "safetensors">>)
IncompleteMarker    == File(FALSE, <<"model", "safetensors", "incomplete">>)
PartMarker          == File(FALSE, <<"model", "bin", "part">>)

AllFiles ==
    { ConfigJson, TokenizerJson, TokenizerConfigJson, ModelSafetensors,
      PytorchModelBin, ShardSafetensors, IncompleteMarker, PartMarker }

\* name components that begin with "part" (the glob *.part* asks for one)
PartComponents == { "part", "part1", "partial" }

\* fnmatch(name, "*." + ext): the last dot-separated component is ext
EndsWith(f, ext) == Len(f.name) >= 2 /\ f.name[Len(f.name)] = ext

\* fnmatch(name, "*.part*"): some component after the first begins with "part"
HasPartComponent(f) == \E i \in 2..Len(f.name) : f.name[i] \in PartComponents

\* Path.rglob(pattern): recursive, so files in subdirectories are found too
Rglob(dir, ext) == { f \in dir : EndsWith(f, ext) }

RglobPart(dir) == { f \in dir : HasPartComponent(f) }

\* ModelDownloader.MODEL_FILE_PATTERNS = ["*.safetensors", "*.bin"]
MODEL_FILE_PATTERNS == { "safetensors", "bin" }

\* ModelDownloader.INCOMPLETE_PATTERNS = ["*.incomplete", "*.part*"]
MatchesIncompletePattern(f) == EndsWith(f, "incomplete") \/ HasPartComponent(f)

IsWeightFile(f) == \E ext \in MODEL_FILE_PATTERNS : EndsWith(f, ext)

\* hf.ModelDownloader.REQUIRED_FILES
REQUIRED_FILES == { <<"config", "json">>, <<"tokenizer", "json">>,
                    <<"tokenizer_config", "json">> }

\* the two weight file names hf._verify_model looks for
HF_WEIGHT_NAMES == { <<"model", "safetensors">>, <<"pytorch_model", "bin">> }

\* ------------------------------------------------------------ verification
\* validate_cache with its first test (no model files: False) left out
validate_cache_without_weight_test(dir) ==
    IF Rglob(dir, "incomplete") # {} THEN FALSE ELSE TRUE

\* validate_cache asking for config.json beside the model files
validate_cache_with_config(dir) ==
    LET model_files == Rglob(dir, "safetensors") \cup Rglob(dir, "bin")
    IN  IF model_files = {} \/ ConfigJson \notin dir THEN FALSE
        ELSE IF Rglob(dir, "incomplete") # {} THEN FALSE
        ELSE TRUE

\* scripts/download_model.py ModelDownloader.validate_cache
validate_cache(dir) ==
    LET model_files == Rglob(dir, "safetensors") \cup Rglob(dir, "bin")
    IN  IF model_files = {} THEN FALSE
        ELSE IF Rglob(dir, "incomplete") # {} THEN FALSE
        ELSE TRUE

\* downloader/hf.py ModelDownloader._verify_model
\* (iterdir: the top-level files only)
_verify_model(dir) ==
    LET files        == { f.name : f \in { g \in dir : ~g.sub } }
        has_required == REQUIRED_FILES \subseteq files
        has_weights  == \E n \in HF_WEIGHT_NAMES : n \in files
    IN  has_required /\ has_weights

\* --------------------------------------------------------------- the remote
\* size in bytes of a file of the remote manifest (sibling.size)
Size(f) ==
    IF f = ModelSafetensors THEN 20
    ELSE IF f = PytorchModelBin THEN 50
    ELSE IF f = ShardSafetensors THEN 60
    ELSE 10

\* the remote manifests (info.siblings) a behaviour may run against
Manifests ==
    { { ConfigJson, TokenizerJson, TokenizerConfigJson, ModelSafetensors },
      { ConfigJson, TokenizerJson, TokenizerConfigJson, ShardSafetensors },
      { ConfigJson, TokenizerJson } }

\* bytes the file system reports as available (f_frsize * f_bavail)
AvailChoices == { 0, 55, 100 }

\* exceptions snapshot_download raises
TransientErrors    == { "TimeoutError", "ConnectionError" }
NonTransientErrors == { "RepositoryNotFoundError", "AuthError" }
ErrorKinds         == TransientErrors \cup NonTransientErrors

\* huggingface_hub: RepositoryNotFoundError and the 401 error are HfHubHTTPError
HfHubHTTPErrorKinds == { "RepositoryNotFoundError", "AuthError" }

\* hf.py: except (HfHubHTTPError, TimeoutError)
HfRetriedErrors == HfHubHTTPErrorKinds \cup { "TimeoutError" }

\* A plan is how the remote (or the function handed to RetryPolicy.execute)
\* answers: its first `fails` invocations raise `err`, the later ones succeed.
Plans ==
    { [err |-> "none", fails |-> 0] } \cup
    { [err |-> e, fails |-> n] : e \in ErrorKinds, n \in 1..MaxFails }

\* the answer of the i-th invocation (i counted from 1) under plan p
PlanOutcome(p, i) == IF i <= p.fails THEN p.err ELSE "ok"

Markers(d) == { f \in d : MatchesIncompletePattern(f) }

\* snapshot_download returned: every file of the manifest is in the directory;
\* markers that were there are either left or cleared
TransferOkDirs(d, m) == { (d \ R) \cup m : R \in { {}, Markers(d) } }

\* snapshot_download raised: nothing was written when the remote refused the
\* request; otherwise one file of the manifest or an in-progress marker may
\* have been left behind
TransferFailedDirs(d, m, err) ==
    IF err \in NonTransientErrors THEN { d }
    ELSE { d \cup P : P \in { {}, { IncompleteMarker } } \cup { { f } : f \in m } }

\* ------------------------------------------------------------- space check
RECURSIVE Sum(_)
Sum(S) == IF S = {} THEN 0
          ELSE LET f == CHOOSE x \in S : TRUE IN Size(f) + Sum(S \ { f })

RECURSIVE Pow2Floor(_)
\* the largest power of two that is <= n, for n >= 1
Pow2Floor(n) == IF n < 2 THEN 1 ELSE 2 * Pow2Floor(n \div 2)

\* The least integer a with  a >= total_size * 1.1  in IEEE double arithmetic
\* (SPACE_BUFFER = 1.1 is the double 11/10 + 0.4 * 2^-52).  The product is off
\* an integer only when total_size is a multiple of 10; there it rounds above
\* 11 * total_size / 10 exactly when 4 * total_size > 5 * 2^floor(log2(product)).
MinAvailable(total_size) ==
    LET q == (11 * total_size) \div 10
    IN  IF total_size % 10 # 0 THEN q + 1
        ELSE IF total_size > 0 /\ 4 * total_size > 5 * Pow2Floor(q) THEN q + 1
        ELSE q

\* a path object that does have a statvfs() method
PathHasStatvfs_present == TRUE

\* self.cache_dir.parent.statvfs(): cache_dir is a pathlib.Path, and pathlib
\* paths have stat() and lstat() but no statvfs() (that one is os.statvfs), so
\* the attribute lookup raises AttributeError on every call
PathHasStatvfs == FALSE

\* ensure_space whose except clause answers True
ensure_space_true_on_error(lookup_ok, m, avail) ==
    IF ~lookup_ok THEN TRUE
    ELSE LET total_size == Sum(m)
         IN  IF ~PathHasStatvfs THEN TRUE
             ELSE avail >= MinAvailable(total_size)

\* scripts/download_model.py ModelDownloader.ensure_space
\* lookup_ok: self.api.model_info(self.model_id) returned
ensure_space(lookup_ok, m, avail) ==
    IF ~lookup_ok THEN FALSE
    ELSE LET total_size == Sum(m)
         IN  IF ~PathHasStatvfs THEN FALSE
             ELSE avail >= MinAvailable(total_size)

\* cleanup_incomplete with the first pattern of INCOMPLETE_PATTERNS only
cleanup_incomplete_first_pattern(d) == d \ { f \in d : EndsWith(f, "incomplete") }

\* scripts/download_model.py ModelDownloader.cleanup_incomplete
cleanup_incomplete(d) == d \ { f \in d : MatchesIncompletePattern(f) }

\* ------------------------------------------------------------------- state
VARIABLES
    impl,          \* "script": scripts/download_model.py, "hf": downloader/hf.py
    dir,           \* the files of the cache directory of the artifact
    manifest,      \* the files the remote holds for the artifact
    available,     \* bytes available on the cache volume
    op,            \* the operation running, or the last one that ran
    pc,            \* where that operation stands
    plan,          \* how the remote answers during this operation
    policy,        \* the RetryPolicy in use: [max_retries, delay]
    retry_count,   \* RetryPolicy.execute: retry_count
    attempt,       \* hf download: the loop variable attempt
    trace,         \* what this operation has done so far, in order
    delays,        \* the arguments of time.sleep during this operation
    result,        \* what the operation returned
    sinceOk,       \* the last download() succeeded and dir is as it left it
    startedAfterOk,\* sinceOk when this operation began
    other,         \* a second caller's download() of the same identifier
    ctor,          \* a ModelDownloader(model_id, cache_dir) being constructed
    cleanup,       \* cleanup_incomplete() runs and the directory they found
    base_dir,      \* the top-level entries of CacheManager.base_dir
    evict,         \* a CacheManager.cleanup_strategy(max_age) call
    lookup,        \* CacheManager.get_model_path calls and what they returned
    cli            \* a run of one of the two command-line scripts

\* the state of the components the operations of the first caller never touch
Aux == << other, ctor, cleanup, base_dir, evict, lookup, cli >>

vars == << impl, dir, manifest, available, op, pc, plan, policy, retry_count,
           attempt, trace, delays, result, sinceOk, startedAfterOk, Aux >>

Ev(o, r) == [op |-> o, ret |-> r]
Bool(b) == IF b THEN "true" ELSE "false"
Count(o) == Cardinality({ i \in DOMAIN trace : trace[i].op = o })
CountRet(o, r) ==
    Cardinality({ i \in DOMAIN trace : trace[i].op = o /\ trace[i].ret = r })

Pending == [success |-> FALSE, error |-> "pending"]
\* DownloadResult(True, model_path=self.cache_dir) / a bare True
Success == [success |-> TRUE, error |-> "none"]
Failed(e) == [success |-> FALSE, error |-> e]

NoPlan == [err |-> "none", fails |-> 0]
NoPolicy == [max_retries |-> 0, delay |-> 0]

\* directories a behaviour may start from
InitDirs == SUBSET AllFiles

\* the second caller has not called download()
OtherIdle == [pc |-> "idle", plan |-> NoPlan, attempt |-> 0, retry_count |-> 0,
              transfers |-> 0, result |-> Pending]

\* a model_id argument: its Python type and, for a str, its characters cut
\* at the "/" separators
StrId(s) == [type |-> "str", s |-> s]
NoneId == [type |-> "NoneType", s |-> << >>]
IntId == [type |-> "int", s |-> << "7" >>]
ModelIds == { StrId(<< >>), StrId(<< "test", "/", "model" >>),
              StrId(<< "gpt2" >>), NoneId, IntId }

\* cleanup_incomplete() has not been called
NoCleanup == [pc |-> "none", first |-> {}, before |-> {}]

\* get_model_path() has not been called
NoLookup == [pc |-> "none", calls |-> << >>, fs |-> << >>]

\* no script has been started
NoCli == [script |-> "none", pc |-> "none", model_id |-> "unset",
          current_attempt |-> 0, sleeps |-> 0, succeeded |-> FALSE,
          exit_code |-> -1]

\* cleanup_strategy() has not been called
NoEvict == [pc |-> "none", current_time |-> 0, max_age |-> 0, before |-> {},
            todo |-> {}, log |-> << >>]

\* ModelDownloader(...) has not been called
NoCtor == [pc |-> "none", model_id |-> NoneId, error |-> "none",
           strategy |-> "none", calls |-> << >>]

\* nothing but the first caller is at work
AuxInit ==
    /\ other = OtherIdle
    /\ ctor = NoCtor
    /\ cleanup = NoCleanup
    /\ base_dir = {}
    /\ evict = NoEvict
    /\ lookup = NoLookup
    /\ cli = NoCli

\* no operation of the first caller has begun
MainInit ==
    /\ op = "none"
    /\ pc = "idle"
    /\ plan = NoPlan
    /\ policy = NoPolicy
    /\ retry_count = 0
    /\ attempt = 0
    /\ trace = << >>
    /\ delays = << >>
    /\ result = Pending
    /\ sinceOk = FALSE
    /\ startedAfterOk = FALSE

Init ==
    /\ impl \in { "script", "hf" }
    /\ dir \in InitDirs
    /\ manifest \in Manifests
    /\ available \in AvailChoices
    /\ MainInit
    /\ AuxInit

Env == << impl, manifest, available, Aux >>

\* an operation begins: its own bookkeeping starts empty
Begin(o, p, pl, po) ==
    /\ op' = o
    /\ pc' = p
    /\ plan' = pl
    /\ policy' = po
    /\ retry_count' = 0
    /\ attempt' = 0
    /\ trace' = << >>
    /\ delays' = << >>
    /\ result' = Pending
    /\ startedAfterOk' = sinceOk
    /\ UNCHANGED << dir, sinceOk, Env >>

\* the caller has the result of the operation; nothing is running
Finish ==
    /\ pc = "done"
    /\ pc' = "idle"
    /\ op' = "none"
    /\ plan' = NoPlan
    /\ policy' = NoPolicy
    /\ retry_count' = 0
    /\ attempt' = 0
    /\ trace' = << >>
    /\ delays' = << >>
    /\ result' = Pending
    /\ startedAfterOk' = FALSE
    /\ UNCHANGED << dir, sinceOk, Env >>

\* no operation is running
AtRest == pc = "idle"

\* operation o has returned
DoneOf(o) == pc = "done" /\ op = o

\* the operation goes on at p, having done evs and left the directory as d
Goto(p, evs, d) ==
    /\ pc' = p
    /\ trace' = trace \o evs
    /\ dir' = d
    /\ sinceOk' = (sinceOk /\ d = dir)
    /\ UNCHANGED << Env, op, plan, policy, retry_count, attempt, delays,
                    result, startedAfterOk >>

\* the operation returns r, having done evs and left the directory as d
Return(r, evs, d) ==
    /\ result' = r
    /\ pc' = "done"
    /\ trace' = trace \o evs
    /\ dir' = d
    /\ sinceOk' = IF op = "download" THEN r.success ELSE (sinceOk /\ d = dir)
    /\ UNCHANGED << Env, op, plan, policy, retry_count, attempt, delays,
                    startedAfterOk >>

\* ------------------------------------------------------------ RetryPolicy
\* a RetryPolicy that gives up one failure early
execute_after_raise_early(rc, max_retries) ==
    IF rc >= max_retries - 1 THEN "reraise" ELSE "sleep_and_retry"

\* RetryPolicy.execute, the except branch: retry_count has been incremented
execute_after_raise(rc, max_retries) ==
    IF rc = max_retries THEN "reraise" ELSE "sleep_and_retry"

\* download(): except Exception as e: return DownloadResult(False, ...)
DownloadFailedAfterRetries == Failed("Download failed after 3 attempts")

\* func() raised inside RetryPolicy.execute; back is where func() starts
OnRaise(evs, d, back) ==
    LET rc == retry_count + 1
    IN  /\ retry_count' = rc
        /\ dir' = d
        /\ UNCHANGED << Env, op, plan, policy, attempt, startedAfterOk >>
        /\ IF execute_after_raise(rc, policy.max_retries) = "reraise"
           THEN /\ result' = IF op = "download" THEN DownloadFailedAfterRetries
                             ELSE Failed("raised")
                /\ pc' = "done"
                /\ trace' = trace \o evs
                /\ delays' = delays
                /\ sinceOk' = IF op = "download" THEN FALSE
                              ELSE (sinceOk /\ d = dir)
           ELSE /\ result' = result
                /\ pc' = back
                /\ trace' = trace \o evs \o << Ev("sleep", "ok") >>
                /\ delays' = Append(delays, policy.delay)
                /\ sinceOk' = (sinceOk /\ d = dir)

\* RetryPolicy(max_retries, delay).execute(func) on a function of the caller
Execute ==
    /\ impl = "script"
    /\ AtRest
    /\ \E n \in 0..MaxFails, mr \in 1..MaxRetriesArg, dl \in { 0, RETRY_DELAY } :
         Begin("execute", "call",
               [err |-> IF n = 0 THEN "none" ELSE "Exception", fails |-> n],
               [max_retries |-> mr, delay |-> dl])

\* one pass of the while loop of RetryPolicy.execute: return func()
ExecuteCall ==
    /\ op = "execute"
    /\ pc = "call"
    /\ LET out == PlanOutcome(plan, Count("func") + 1)
       IN  IF out = "ok"
           THEN Return(Success, << Ev("func", "ok") >>, dir)
           ELSE OnRaise(<< Ev("func", out) >>, dir, "call")

\* ------------------------------------- scripts/download_model.py download()
\* attempt_download: what follows validate_cache()
attempt_after_validate(valid) ==
    IF valid THEN "return_success" ELSE "ensure_space"

\* attempt_download raising on a failed space check instead of returning
attempt_after_space_raises(has_space) ==
    IF ~has_space THEN "raise" ELSE "download_files"

\* attempt_download: what follows ensure_space()
attempt_after_space(has_space) ==
    IF ~has_space THEN "return_failed" ELSE "download_files"

\* attempt_download: what follows download_files()
attempt_after_files(downloaded) ==
    IF downloaded THEN "return_success" ELSE "raise"

InsufficientSpace == Failed("Insufficient disk space")

\* attempt_download goes on as `next` says
Continue(next, evs, d) ==
    CASE next = "return_success" -> Return(Success, evs, d)
      [] next = "return_failed"  -> Return(InsufficientSpace, evs, d)
      [] next = "ensure_space"   -> Goto("space", evs, d)
      [] next = "download_files" -> Goto("transfer", evs, d)
      [] next = "raise"          -> OnRaise(evs, d, "validate")

\* ModelDownloader.download() is called
ScriptDownload ==
    /\ impl = "script"
    /\ AtRest
    /\ \E pl \in Plans :
         Begin("download", "validate", pl,
               [max_retries |-> MAX_RETRIES, delay |-> RETRY_DELAY])

\* attempt_download: if self.validate_cache()
ScriptValidateCache ==
    /\ op = "download"
    /\ pc = "validate"
    /\ LET valid == validate_cache(dir)
       IN  Continue(attempt_after_validate(valid),
                    << Ev("validate_cache", Bool(valid)) >>, dir)

\* attempt_download: if not self.ensure_space()
ScriptEnsureSpace ==
    /\ op = "download"
    /\ pc = "space"
    /\ \E lookup_ok \in BOOLEAN :
         LET has_space == ensure_space(lookup_ok, manifest, available)
         IN  Continue(attempt_after_space(has_space),
                      << Ev("model_info", Bool(lookup_ok)),
                         Ev("ensure_space", Bool(has_space)) >>, dir)

\* ModelDownloader.download_files() is called by the caller itself
ScriptDownloadFiles ==
    /\ impl = "script"
    /\ AtRest
    /\ \E pl \in Plans : Begin("download_files", "transfer", pl, NoPolicy)

\* download_files: snapshot_download, then return self.validate_cache();
\* every exception is caught and answered with False
ScriptTransfer ==
    /\ impl = "script"
    /\ pc = "transfer"
    /\ LET out == PlanOutcome(plan, Count("snapshot_download") + 1)
       IN  \E d \in IF out = "ok" THEN TransferOkDirs(dir, manifest)
                    ELSE TransferFailedDirs(dir, manifest, out) :
             LET downloaded == IF out = "ok" THEN validate_cache(d) ELSE FALSE
                 evs == << Ev("snapshot_download", out) >> \o
                        IF out = "ok"
                        THEN << Ev("validate_after", Bool(downloaded)) >>
                        ELSE << >>
             IN  IF op = "download"
                 THEN Continue(attempt_after_files(downloaded), evs, d)
                 ELSE Return(IF downloaded THEN Success
                             ELSE Failed("download_files"), evs, d)

\* ModelDownloader.cleanup_incomplete() is called by the caller
ScriptCleanupIncomplete ==
    /\ impl = "script"
    /\ AtRest
    /\ op' = "cleanup_incomplete"
    /\ pc' = "done"
    /\ dir' = cleanup_incomplete(dir)
    /\ sinceOk' = (sinceOk /\ dir' = dir)
    /\ startedAfterOk' = sinceOk
    /\ trace' = << Ev("cleanup_incomplete", "ok") >>
    /\ UNCHANGED << Env, plan, policy, retry_count, attempt, delays, result >>

\* ------------------------------------------- downloader/hf.py download()
\* a wait that does not grow
wait_time_constant(n) == 1

\* wait_time = 2 ** attempt
RECURSIVE Pow2(_)
Pow2(n) == IF n = 0 THEN 1 ELSE 2 * Pow2(n - 1)

\* the except clause of the retry loop of hf download
hf_after_error(err, att, max_retries) ==
    IF err \in HfRetriedErrors
    THEN IF att = max_retries - 1 THEN "return_false" ELSE "sleep_and_retry"
    ELSE "outer_except"

\* hf download without its outer try: the exception reaches the caller
HfOuterExcept_missing == Failed("raised")

\* hf download: except Exception as e: logger.error(...); return False
HfOuterExcept == Failed("False")

\* hf download that does not return at the cache check
hf_after_check_ignores_cache(verified) == "transfer"

\* if model_dir.exists() and self._verify_model(model_dir): return True
hf_after_check(verified) == IF verified THEN "return_true" ELSE "transfer"

\* hf download answering True once snapshot_download has returned
hf_after_transfer_unverified(verified) == Success

\* after snapshot_download: return self._verify_model(model_dir)
hf_after_transfer(verified) == IF verified THEN Success ELSE Failed("False")

\* ModelDownloader.download(model_id) is called
HfDownload ==
    /\ impl = "hf"
    /\ AtRest
    /\ \E pl \in Plans :
         Begin("download", "hf_check", pl,
               [max_retries |-> HF_MAX_RETRIES, delay |-> 0])

\* if model_dir.exists() and self._verify_model(model_dir): return True
HfCacheCheck ==
    /\ impl = "hf"
    /\ op = "download"
    /\ pc = "hf_check"
    /\ LET ok == _verify_model(dir)
           evs == << Ev("_verify_model", Bool(ok)) >>
       IN  IF hf_after_check(ok) = "return_true"
           THEN Return(Success, evs, dir)
           ELSE Goto("hf_transfer", evs, dir)

\* one pass of  for attempt in range(max_retries)
HfTransfer ==
    /\ impl = "hf"
    /\ op = "download"
    /\ pc = "hf_transfer"
    /\ attempt < policy.max_retries
    /\ LET out == PlanOutcome(plan, Count("snapshot_download") + 1)
       IN  \E d \in IF out = "ok" THEN TransferOkDirs(dir, manifest)
                    ELSE TransferFailedDirs(dir, manifest, out) :
             IF out = "ok"
             THEN LET ok == _verify_model(d)
                  IN  Return(hf_after_transfer(ok),
                             << Ev("snapshot_download", "ok"),
                                Ev("verify_after", Bool(ok)) >>, d)
             ELSE LET next == hf_after_error(out, attempt, policy.max_retries)
                      evs == << Ev("snapshot_download", out) >>
                  IN  IF next = "sleep_and_retry"
                      THEN /\ attempt' = attempt + 1
                           /\ delays' = Append(delays, Pow2(attempt))
                           /\ trace' = trace \o evs \o << Ev("sleep", "ok") >>
                           /\ dir' = d
                           /\ sinceOk' = (sinceOk /\ d = dir)
                           /\ UNCHANGED << Env, op, pc, plan, policy,
                                           retry_count, result,
                                           startedAfterOk >>
                      ELSE Return(IF next = "return_false"
                                  THEN Failed("False") ELSE HfOuterExcept,
                                  evs, d)

Next ==
    \/ Finish
    \/ Execute
    \/ ExecuteCall
    \/ ScriptDownload
    \/ ScriptValidateCache
    \/ ScriptEnsureSpace
    \/ ScriptDownloadFiles
    \/ ScriptTransfer
    \/ ScriptCleanupIncomplete
    \/ HfDownload
    \/ HfCacheCheck
    \/ HfTransfer

Spec == Init /\ [][Next]_vars

\* ------------------------------ ModelDownloader.__init__, create_strategy
\* a constructor that accepts every model_id
valid_model_id_any(id) == TRUE

\* not (not model_id or not isinstance(model_id, str))
valid_model_id(id) ==
    /\ ~(id.type = "NoneType" \/ id.s = << >>)
    /\ id.type = "str"

\* create_strategy without its except clause
create_strategy_without_except(lookup_ok, siblings) ==
    IF ~lookup_ok THEN "raise"
    ELSE IF \E f \in siblings : EndsWith(f, "safetensors")
         THEN "SafetensorsStrategy" ELSE "DefaultStrategy"

\* create_strategy that looks for every pattern of MODEL_FILE_PATTERNS
create_strategy_any_weight(lookup_ok, siblings) ==
    IF ~lookup_ok THEN "DefaultStrategy"
    ELSE IF \E f \in siblings : IsWeightFile(f)
         THEN "SafetensorsStrategy" ELSE "DefaultStrategy"

\* DownloadStrategyFactory.create_strategy
\* lookup_ok: self.repository.get_model_info(model_id) returned the siblings
create_strategy(lookup_ok, siblings) ==
    IF ~lookup_ok THEN "DefaultStrategy"
    ELSE IF \E f \in siblings : EndsWith(f, "safetensors")
         THEN "SafetensorsStrategy" ELSE "DefaultStrategy"

\* ModelDownloader(model_id, cache_dir)
ModelDownloaderInit ==
    /\ ctor.pc = "none"
    /\ \E id \in ModelIds, lookup_ok \in BOOLEAN :
         IF ~valid_model_id(id)
         THEN ctor' = [NoCtor EXCEPT !.pc = "raised", !.model_id = id,
                                    !.error = "ValueError"]
         ELSE LET strategy == create_strategy(lookup_ok, manifest)
                  calls == << Ev("model_info", Bool(lookup_ok)) >>
              IN  IF strategy = "raise"
                  THEN ctor' = [NoCtor EXCEPT !.pc = "raised", !.model_id = id,
                                             !.error = "Exception",
                                             !.calls = calls]
                  ELSE ctor' = [NoCtor EXCEPT !.pc = "built", !.model_id = id,
                                             !.strategy = strategy,
                                             !.calls = calls]
    /\ UNCHANGED << impl, dir, manifest, available, op, pc, plan, policy,
                    retry_count, attempt, trace, delays, result, sinceOk,
                    startedAfterOk, other, cleanup, base_dir, evict, lookup,
                    cli >>

\* manifests the lookup of the constructor may return
CtorManifests ==
    SUBSET { ConfigJson, TokenizerJson, ModelSafetensors, PytorchModelBin,
             ShardSafetensors }

CtorInit ==
    /\ impl = "script"
    /\ dir = {}
    /\ manifest \in CtorManifests
    /\ available \in AvailChoices
    /\ MainInit
    /\ AuxInit

CtorNext == ModelDownloaderInit

SpecCtor == CtorInit /\ [][CtorNext]_vars

\* ------------------------------------- cleanup_incomplete, file by file
\* complete files whose names hold a ".part" component
PartNamedWeight == File(FALSE, << "pytorch_model", "part1", "bin" >>)
PartNamedConfig == File(FALSE, << "vocab", "partial", "json" >>)
ReadmeMd        == File(FALSE, << "README", "md" >>)

\* ModelDownloader.CONFIG_FILE_PATTERNS = ["*.json", "*.txt", "*.md"]
CONFIG_FILE_PATTERNS == { "json", "txt", "md" }

IsConfigFile(f) == \E ext \in CONFIG_FILE_PATTERNS : EndsWith(f, ext)

\* the files a cache directory may hold when cleanup_incomplete runs
CleanupFiles ==
    { ConfigJson, ModelSafetensors, PytorchModelBin, ShardSafetensors,
      ReadmeMd, IncompleteMarker, PartMarker, PartNamedWeight,
      PartNamedConfig }

\* downloader.cleanup_incomplete(), a first and a second time
CleanupIncompleteCall ==
    /\ cleanup.pc \in { "none", "once" }
    /\ cleanup' = [pc |-> IF cleanup.pc = "none" THEN "once" ELSE "twice",
                   first |-> IF cleanup.pc = "none" THEN dir
                             ELSE cleanup.first,
                   before |-> dir]
    /\ dir' = cleanup_incomplete(dir)
    /\ UNCHANGED << impl, manifest, available, op, pc, plan, policy,
                    retry_count, attempt, trace, delays, result, sinceOk,
                    startedAfterOk, other, ctor, base_dir, evict, lookup, cli >>

CleanupInit ==
    /\ impl = "script"
    /\ dir \in SUBSET CleanupFiles
    /\ manifest = {}
    /\ available = 0
    /\ MainInit
    /\ AuxInit

CleanupNext == CleanupIncompleteCall

SpecCleanup == CleanupInit /\ [][CleanupNext]_vars

\* ------------------------------------------ CacheManager.cleanup_strategy
\* def cleanup_strategy(self, max_age: int = 30)
DEFAULT_MAX_AGE == 30

\* max_age * 24 * 3600
SecondsPerDay == 24 * 3600

\* time.time() when cleanup_strategy is called
Now == 2600000

\* max_age arguments
MaxAges == { 0, 1, DEFAULT_MAX_AGE }

\* st_mtime values: one second before, at, and one second after the
\* thresholds of 30 days and of 1 day, and the time of the call
MTimes == { 7999, 8000, 8001, 2513599, 2513600, 2513601, 2600000 }

\* names of top-level entries: two made by get_model_path, one not
EntryNames == { << "models--", "test--model" >>, << "models--", "gpt2" >>,
                << "datasets--", "squad" >> }

\* self.base_dir.glob("models--*")
Glob(entries) == { e \in entries : e.name[1] = "models--" }

\* the comparison of cleanup_strategy with <= for <
older_than_or_equal(st_mtime, current_time, max_age) ==
    st_mtime <= current_time - (max_age * SecondsPerDay)

\* path.stat().st_mtime < (current_time - (max_age * 24 * 3600))
older_than(st_mtime, current_time, max_age) ==
    st_mtime < current_time - (max_age * SecondsPerDay)

\* an eviction that removes the entry first and logs afterwards
remove_old_then_log(name) == << Ev("rmtree", name), Ev("logger.info", name) >>

\* logger.info(f"Removing old cache: {path}"); shutil.rmtree(path)
remove_old(name) == << Ev("logger.info", name), Ev("rmtree", name) >>

\* what the rest of the system leaves alone during an eviction
EvictFrame ==
    UNCHANGED << impl, dir, manifest, available, op, pc, plan, policy,
                 retry_count, attempt, trace, delays, result, sinceOk,
                 startedAfterOk, other, ctor, cleanup, lookup, cli >>

\* CacheManager(base_dir).cleanup_strategy(max_age) is called
CleanupStrategy ==
    /\ evict.pc = "none"
    /\ \E max_age \in MaxAges :
         evict' = [pc |-> IF Glob(base_dir) = {} THEN "done" ELSE "loop",
                   current_time |-> Now, max_age |-> max_age,
                   before |-> base_dir, todo |-> Glob(base_dir),
                   log |-> << >>]
    /\ UNCHANGED base_dir
    /\ EvictFrame

\* one pass of  for path in self.base_dir.glob("models--*")
CleanupStrategyPass ==
    /\ evict.pc = "loop"
    /\ \E path \in evict.todo :
         LET todo == evict.todo \ { path }
             old == older_than(path.st_mtime, evict.current_time,
                               evict.max_age)
         IN  /\ evict' = [evict EXCEPT
                            !.todo = todo,
                            !.pc = IF todo = {} THEN "done" ELSE "loop",
                            !.log = IF old
                                    THEN @ \o remove_old(path.name)
                                    ELSE @]
             /\ base_dir' = IF old THEN base_dir \ { path } ELSE base_dir
    /\ EvictFrame

\* base directories: every entry name absent or present with some mtime
BaseDirs ==
    { { [name |-> n, st_mtime |-> f[n]] : n \in S } :
        S \in SUBSET EntryNames, f \in [EntryNames -> MTimes] }

EvictInit ==
    /\ impl = "script"
    /\ dir = {}
    /\ manifest = {}
    /\ available = 0
    /\ MainInit
    /\ other = OtherIdle
    /\ ctor = NoCtor
    /\ cleanup = NoCleanup
    /\ base_dir \in BaseDirs
    /\ evict = NoEvict
    /\ lookup = NoLookup
    /\ cli = NoCli

EvictNext ==
    \/ CleanupStrategy
    \/ CleanupStrategyPass

SpecEvict == EvictInit /\ [][EvictNext]_vars

\* ----------------------------------------- CacheManager.get_model_path
\* longest model_id string, in pieces
MaxIdLen == 3

\* the pieces model_id strings are made of: two names, the separator of a
\* repository id, and the two characters "--"
IdPieces == { "org", "name", "/", "--" }

IdStrings == UNION { [1..n -> IdPieces] : n \in 0..MaxIdLen }

\* model_id.replace("/", "--")
Replace(s) == [i \in DOMAIN s |-> IF s[i] = "/" THEN "--" ELSE s[i]]

\* get_model_path that joins model_id as it is
get_model_path_unreplaced(im, s) ==
    IF im = "hf" THEN [parent |-> "models_dir", name |-> s]
    ELSE [parent |-> "base_dir", name |-> << "models--" >> \o s]

\* get_model_path that names the directory by the last piece of model_id
get_model_path_last_piece(im, s) ==
    LET last == IF s = << >> THEN << >> ELSE << s[Len(s)] >>
    IN  IF im = "hf" THEN [parent |-> "models_dir", name |-> Replace(last)]
        ELSE [parent |-> "base_dir", name |-> << "models--" >> \o Replace(last)]

\* cache/manager.py: self.models_dir / model_id.replace("/", "--")
\* scripts/download_model.py:
\*     self.base_dir / f"models--{model_id.replace('/', '--')}"
get_model_path(im, s) ==
    IF im = "hf" THEN [parent |-> "models_dir", name |-> Replace(s)]
    ELSE [parent |-> "base_dir", name |-> << "models--" >> \o Replace(s)]

\* cache.get_model_path(model_id), a first and a second time
GetModelPathCall ==
    /\ lookup.pc \in { "none", "once" }
    /\ \E s \in IdStrings :
         lookup' = [pc |-> IF lookup.pc = "none" THEN "once" ELSE "twice",
                    calls |-> Append(lookup.calls,
                                     [id |-> s,
                                      path |-> get_model_path(impl, s)]),
                    fs |-> << dir, base_dir >>]
    /\ UNCHANGED << impl, dir, manifest, available, op, pc, plan, policy,
                    retry_count, attempt, trace, delays, result, sinceOk,
                    startedAfterOk, other, ctor, cleanup, base_dir, evict,
                    cli >>

PathInit ==
    /\ impl \in { "script", "hf" }
    /\ dir \in { {}, { ConfigJson, ModelSafetensors } }
    /\ manifest = {}
    /\ available = 0
    /\ MainInit
    /\ AuxInit

PathNext == GetModelPathCall

SpecPath == PathInit /\ [][PathNext]_vars

\* ------------------------------------- a constructed downloader transfers
\* a file of the repository that no pattern of MODEL_FILE_PATTERNS or
\* CONFIG_FILE_PATTERNS matches
OnnxModel == File(FALSE, << "model", "onnx" >>)

\* repositories with such a file beside weights of either kind
StrategyManifests ==
    { { ConfigJson, ModelSafetensors, OnnxModel },
      { ConfigJson, PytorchModelBin, OnnxModel },
      { ConfigJson, ModelSafetensors } }

\* downloader.download() on a downloader that has been constructed
BuiltDownload ==
    /\ ctor.pc = "built"
    /\ ScriptDownload

\* downloader.download_files() on a downloader that has been constructed
BuiltDownloadFiles ==
    /\ ctor.pc = "built"
    /\ ScriptDownloadFiles

StrategyInit ==
    /\ impl = "script"
    /\ dir = {}
    /\ manifest \in StrategyManifests
    /\ available \in AvailChoices
    /\ MainInit
    /\ AuxInit

StrategyNext ==
    \/ ModelDownloaderInit
    \/ BuiltDownload
    \/ ScriptValidateCache
    \/ ScriptEnsureSpace
    \/ BuiltDownloadFiles
    \/ ScriptTransfer

SpecStrategy == StrategyInit /\ [][StrategyNext]_vars

\* ------------------------------------------------ the command-line scripts
\* download_model.py: max_attempts = 3
MAX_ATTEMPTS == 3

\* what a step of a script leaves alone beyond cli
CliFrame ==
    UNCHANGED << impl, dir, manifest, available, op, pc, plan, policy,
                 retry_count, attempt, trace, delays, result, sinceOk,
                 startedAfterOk, other, ctor, cleanup, base_dir, evict,
                 lookup >>

\* the script ends with sys.exit(code), or by reaching its last line (code 0)
Exit(code, ok) ==
    cli' = [cli EXCEPT !.pc = "exited", !.exit_code = code, !.succeeded = ok]

\* scripts/download_model.py main(), up to the call of download()
\* model_id_set: MODEL_ID is in the environment and not empty
\* mkdir_ok: base_cache.mkdir(exist_ok=True) did not raise
Main ==
    /\ cli.pc = "none"
    /\ impl = "script"
    /\ AtRest
    /\ \E model_id_set, mkdir_ok \in BOOLEAN :
         IF ~model_id_set
         THEN cli' = [NoCli EXCEPT !.script = "main", !.pc = "exited",
                                   !.exit_code = 1]
         ELSE IF ~mkdir_ok
         THEN cli' = [NoCli EXCEPT !.script = "main", !.pc = "exited",
                                   !.model_id = "set", !.exit_code = 1]
         ELSE cli' = [NoCli EXCEPT !.script = "main", !.pc = "download",
                                   !.model_id = "set"]
    /\ CliFrame

\* main: result = downloader.download()
MainDownload ==
    /\ cli.pc = "download"
    /\ ScriptDownload

\* main: if not result.success: sys.exit(1); sys.exit(0)
MainExit ==
    /\ cli.pc = "download"
    /\ DoneOf("download")
    /\ Exit(IF ~result.success THEN 1 ELSE 0, result.success)
    /\ CliFrame

\* download_model.py download_model(): what the call gives its caller
\* network: wait_for_network() returned True ("connected") or, interrupted
\*   from the keyboard, False ("cancelled")
\* transfer: snapshot_download returned ("ok") or raised
download_model(network, transfer) ==
    IF network = "cancelled" THEN "False"
    ELSE IF transfer = "ok" THEN "True"
    ELSE transfer

\* the body of the while loop of download_model.py after download_model()
\* gave `out`; current_attempt has been incremented
after_download_model(out, current_attempt) ==
    CASE out = "True"              -> "break"
      [] out = "False"             -> "next"
      [] out = "KeyboardInterrupt" -> "exit_1"
      [] out = "Exception"         ->
            IF current_attempt < MAX_ATTEMPTS THEN "sleep" ELSE "exit_1"

\* python download_model.py is started
DownloadModelScript ==
    /\ cli.pc = "none"
    /\ cli' = [NoCli EXCEPT !.script = "download_model", !.pc = "loop"]
    /\ CliFrame

\* one pass of  while current_attempt < max_attempts  and the loop test
\* that follows it
DownloadModelAttempt ==
    /\ cli.pc = "loop"
    /\ cli.current_attempt < MAX_ATTEMPTS
    /\ \E network \in { "connected", "cancelled" },
          transfer \in { "ok", "Exception", "KeyboardInterrupt" } :
         LET current_attempt == cli.current_attempt + 1
             next == after_download_model(download_model(network, transfer),
                                          current_attempt)
             more == current_attempt < MAX_ATTEMPTS
         IN  CASE next = "break"  ->
                    cli' = [cli EXCEPT !.current_attempt = current_attempt,
                                       !.pc = "exited", !.exit_code = 0,
                                       !.succeeded = TRUE]
               [] next = "exit_1" ->
                    cli' = [cli EXCEPT !.current_attempt = current_attempt,
                                       !.pc = "exited", !.exit_code = 1]
               [] next = "sleep"  ->
                    cli' = [cli EXCEPT !.current_attempt = current_attempt,
                                       !.sleeps = @ + 1]
               [] next = "next"   ->
                    IF more
                    THEN cli' = [cli EXCEPT
                                   !.current_attempt = current_attempt]
                    ELSE cli' = [cli EXCEPT
                                   !.current_attempt = current_attempt,
                                   !.pc = "exited", !.exit_code = 0]
    /\ CliFrame

\* cache directories main() may find: empty, complete, with a marker
CliDirs == { {}, { ConfigJson, TokenizerJson, ModelSafetensors },
             { ConfigJson, ModelSafetensors, IncompleteMarker } }

CliInit ==
    /\ impl = "script"
    /\ dir \in CliDirs
    /\ manifest \in Manifests
    /\ available \in AvailChoices
    /\ MainInit
    /\ AuxInit

CliNext ==
    \/ Main
    \/ MainDownload
    \/ ScriptValidateCache
    \/ ScriptEnsureSpace
    \/ MainExit
    \/ DownloadModelScript
    \/ DownloadModelAttempt

SpecCli == CliInit /\ [][CliNext]_vars

\* ------------------------------------ two callers, one artifact identifier
\* Neither download() takes a lock, so a second call on the same identifier
\* runs the same code on the same cache directory, interleaved at will with
\* the first.  The second call keeps its own locals in `other`.

\* the second caller's call is at p
OtherAt(p) == other.pc = p

\* what the second caller's step leaves alone, having left the directory as d
OtherWrites(d) ==
    /\ dir' = d
    /\ sinceOk' = (sinceOk /\ d = dir)
    /\ UNCHANGED << impl, manifest, available, op, pc, plan, policy,
                    retry_count, attempt, trace, delays, result,
                    startedAfterOk, ctor, cleanup, base_dir, evict, lookup,
                    cli >>

\* the second caller's call returns r
OtherReturn(r, d) ==
    /\ other' = [other EXCEPT !.pc = "done", !.result = r]
    /\ OtherWrites(d)

\* the second caller's call goes on at p
OtherGoto(p, d) ==
    /\ other' = [other EXCEPT !.pc = p]
    /\ OtherWrites(d)

\* the second caller calls download() of the same identifier
OtherDownload ==
    /\ OtherAt("idle")
    /\ \E pl \in Plans :
         other' = [OtherIdle EXCEPT
                     !.pc = IF impl = "script" THEN "validate" ELSE "hf_check",
                     !.plan = pl]
    /\ OtherWrites(dir)

\* the cache check of the second call
OtherCacheCheck ==
    \/ /\ OtherAt("validate")
       /\ IF attempt_after_validate(validate_cache(dir)) = "return_success"
          THEN OtherReturn(Success, dir)
          ELSE OtherGoto("space", dir)
    \/ /\ OtherAt("hf_check")
       /\ IF hf_after_check(_verify_model(dir)) = "return_true"
          THEN OtherReturn(Success, dir)
          ELSE OtherGoto("hf_transfer", dir)

\* the space check of the second call
OtherEnsureSpace ==
    /\ OtherAt("space")
    /\ \E lookup_ok \in BOOLEAN :
         IF attempt_after_space(ensure_space(lookup_ok, manifest, available))
              = "return_failed"
         THEN OtherReturn(InsufficientSpace, dir)
         ELSE OtherGoto("transfer", dir)

\* the second call's func() raised inside RetryPolicy.execute
OtherOnRaise(d) ==
    LET rc == other.retry_count + 1
    IN  IF execute_after_raise(rc, MAX_RETRIES) = "reraise"
        THEN /\ other' = [other EXCEPT !.pc = "done", !.retry_count = rc,
                                       !.transfers = @ + 1,
                                       !.result = DownloadFailedAfterRetries]
             /\ OtherWrites(d)
        ELSE /\ other' = [other EXCEPT !.pc = "validate", !.retry_count = rc,
                                       !.transfers = @ + 1]
             /\ OtherWrites(d)

\* one snapshot_download of the second call and what follows it
OtherTransfer ==
    /\ OtherAt("transfer") \/ OtherAt("hf_transfer")
    /\ OtherAt("hf_transfer") => other.attempt < HF_MAX_RETRIES
    /\ LET out == PlanOutcome(other.plan, other.transfers + 1)
       IN  \E d \in IF out = "ok" THEN TransferOkDirs(dir, manifest)
                    ELSE TransferFailedDirs(dir, manifest, out) :
             IF OtherAt("transfer")
             THEN IF attempt_after_files(out = "ok" /\ validate_cache(d))
                       = "return_success"
                  THEN OtherReturn(Success, d)
                  ELSE OtherOnRaise(d)
             ELSE IF out = "ok"
                  THEN OtherReturn(IF _verify_model(d) THEN Success
                                   ELSE Failed("False"), d)
                  ELSE IF hf_after_error(out, other.attempt, HF_MAX_RETRIES)
                            = "sleep_and_retry"
                       THEN /\ other' = [other EXCEPT !.attempt = @ + 1,
                                                      !.transfers = @ + 1]
                            /\ OtherWrites(d)
                       ELSE OtherReturn(IF out \in HfRetriedErrors
                                        THEN Failed("False")
                                        ELSE HfOuterExcept, d)

\* cache directories the two calls may find
ConcDirs == { {}, { ConfigJson, TokenizerJson, ModelSafetensors },
              { ConfigJson, IncompleteMarker } }

ConcInit ==
    /\ impl \in { "script", "hf" }
    /\ dir \in ConcDirs
    /\ manifest \in Manifests
    /\ available \in AvailChoices
    /\ MainInit
    /\ AuxInit

ConcNext ==
    \/ ScriptDownload
    \/ ScriptValidateCache
    \/ ScriptEnsureSpace
    \/ HfDownload
    \/ HfCacheCheck
    \/ HfTransfer
    \/ OtherDownload
    \/ OtherCacheCheck
    \/ OtherEnsureSpace
    \/ OtherTransfer

SpecConc == ConcInit /\ [][ConcNext]_vars

\* ------------------------------------------------------------ vocabulary
\* a download() call has returned
DoneDownload == pc = "done" /\ op = "download"

\* network calls of the running operation: manifest lookups and transfers
NetworkCalls == Count("model_info") + Count("snapshot_download")

\* the verification the downloader of this behaviour uses
Verify(d) == IF impl = "script" THEN validate_cache(d) ELSE _verify_model(d)

\* the verification download() runs before any transfer
CacheChecks == Count("validate_cache") + Count("_verify_model")

\* download() returned at its first cache check
FastPath == DoneDownload /\ Len(trace) = 1 /\ result.success

HasWeightFile(d) == \E f \in d : IsWeightFile(f)

\* the last thing the operation did was a verification after a transfer, and
\* it answered False
PostTransferVerifyFailed ==
    /\ Len(trace) > 0
    /\ trace[Len(trace)].op \in { "validate_after", "verify_after" }
    /\ trace[Len(trace)].ret = "false"

\* the outcome of the first transfer of the operation, "none" without one
FirstTransferOutcome ==
    LET S == { i \in DOMAIN trace : trace[i].op = "snapshot_download" }
    IN  IF S = {} THEN "none"
        ELSE trace[CHOOSE i \in S : \A j \in S : i <= j].ret

\* ------------------------------------------------------------------ claims

\* C1: when download() returned success and the cache directory has not been
\* written since, the next download() returns success with no network call
\* (no manifest lookup, no transfer) and no retry sleep.
C1_IdempotentFastPath ==
    (DoneDownload /\ startedAfterOk) =>
        (result.success /\ NetworkCalls = 0 /\ Len(delays) = 0)

C1_Witness == DoneDownload /\ startedAfterOk /\ result.success /\ impl = "hf"

\* C2: a directory that holds a file matching *.incomplete or *.part* is
\* never verified as complete.
C2_MarkersDominate == Markers(dir) # {} => ~Verify(dir)

\* C3: when the space check answers False, download() returns the
\* insufficient-space failure, with no transfer, no retry sleep and no second
\* space check.
C3_SpaceGating ==
    (DoneDownload /\ CountRet("ensure_space", "false") > 0) =>
        /\ result = InsufficientSpace
        /\ Count("snapshot_download") = 0
        /\ Len(delays) = 0
        /\ Count("ensure_space") = 1

C3_Witness ==
    /\ DoneDownload
    /\ CountRet("ensure_space", "false") = 1
    /\ CountRet("model_info", "true") = 1
    /\ result = InsufficientSpace

\* C4: an operation that raises a transient error on every invocation is
\* invoked exactly 3 times by the retry logic with 3 attempts, which then
\* reports failure: RetryPolicy.execute, and the transfer loop of hf download.
C4_RetryBound ==
    /\ (/\ pc = "done" /\ op = "execute"
        /\ policy.max_retries = 3 /\ plan.fails >= 3)
       => (Count("func") = 3 /\ ~result.success)
    /\ (/\ DoneDownload /\ impl = "hf" /\ Count("snapshot_download") > 0
        /\ plan.err \in TransientErrors /\ plan.fails >= HF_MAX_RETRIES)
       => (Count("snapshot_download") = 3 /\ ~result.success)

\* C5: from a cache that is not complete, with sufficient space, when the
\* transfer raises a transient error twice and then succeeds leaving a
\* complete directory, download() returns success after exactly 3 transfers.
C5_RetryThenSucceed ==
    (/\ DoneDownload /\ impl = "script"
     /\ trace[1] = Ev("validate_cache", "false")
     /\ CountRet("model_info", "false") = 0
     /\ available >= MinAvailable(Sum(manifest))
     /\ plan.err \in TransientErrors /\ plan.fails = 2
     /\ validate_cache(dir \cup manifest))
    => (result.success /\ Count("snapshot_download") = 3)

\* C6: when download() returns a failure because the directory did not verify
\* after the transfer, no *.incomplete or *.part* file is left in it.
C6_CleanupOnVerificationFailure ==
    (DoneDownload /\ ~result.success /\ PostTransferVerifyFailed) =>
        Markers(dir) = {}

\* what the specification calls complete: no in-progress marker, every
\* required metadata name, and at least one weight file
SpecComplete(d) ==
    /\ Markers(d) = {}
    /\ REQUIRED_FILES \subseteq { f.name : f \in d }
    /\ HasWeightFile(d)

\* C7: verification answers complete if and only if the directory has no
\* in-progress marker, every required metadata name and a weight file.
C7_CompletenessCriterion == Verify(dir) <=> SpecComplete(dir)

\* C8: a directory without a weight file (*.safetensors, *.bin) is never
\* verified as complete, and download() never takes the fast path on it.
C8_NoWeightsNeverComplete ==
    ~HasWeightFile(dir) =>
        (~validate_cache(dir) /\ ~_verify_model(dir) /\ ~FastPath)

C8_Witness ==
    /\ DoneDownload
    /\ ~HasWeightFile(dir)
    /\ REQUIRED_FILES \subseteq { f.name : f \in dir }
    /\ Markers(dir) = {}
    /\ trace[1].ret = "false"

\* C9: when the transfer fails with a non-transient error (not found,
\* authentication), download() fails after exactly one transfer and no sleep.
C9_NonRetryableImmediate ==
    (DoneDownload /\ FirstTransferOutcome \in NonTransientErrors) =>
        (~result.success /\ Count("snapshot_download") = 1 /\ Len(delays) = 0)

InDownload == op = "download" /\ pc \notin { "idle", "done" }

\* so is the second caller's
OtherInDownload == other.pc \notin { "idle", "done" }

\* C11: two download() calls of the same identifier are never both between
\* the start of their cache check and the end of their post-transfer
\* verification
C11_MutualExclusion == ~(InDownload /\ OtherInDownload)

\* both calls stand before a snapshot_download into the same directory
C11_BothTransferring == pc = "hf_transfer" /\ OtherAt("hf_transfer")

\* what download() can hand to its caller: the three DownloadResult values of
\* scripts/download_model.py, the bare True / False of downloader/hf.py
ReturnValues ==
    IF impl = "script"
    THEN { Success, InsufficientSpace, DownloadFailedAfterRetries }
    ELSE { Success, Failed("False") }

\* C12: whatever cache validation, space check and transfer do, exceptions
\* raised inside them included, download() returns a result value to its
\* caller and no exception escapes it
C12_StructuredResult == DoneDownload => result \in ReturnValues

\* the manifest lookup raised inside the space check of a script download()
C12_Witness ==
    /\ DoneDownload
    /\ impl = "script"
    /\ CountRet("model_info", "false") = 1
    /\ result = InsufficientSpace

\* the constructor has returned or raised
Constructed == ctor.pc # "none"

\* C13: an empty or non-string model_id is rejected with ValueError before
\* any manifest lookup, cache access, transfer or retry
C13_InvalidInputFailsFast ==
    (Constructed /\ (ctor.model_id.type # "str" \/ ctor.model_id.s = << >>))
        => /\ ctor.pc = "raised"
           /\ ctor.error = "ValueError"
           /\ ctor.calls = << >>
           /\ ctor.strategy = "none"
           /\ trace = << >> /\ delays = << >> /\ dir = {}

\* ModelDownloader("", cache_dir) raised ValueError
C13_Witness ==
    /\ ctor.pc = "raised"
    /\ ctor.model_id = StrId(<< >>)
    /\ ctor.error = "ValueError"

\* the manifest lookup of the constructor returned the siblings
LookupReturned == ctor.calls = << Ev("model_info", "true") >>

\* the manifest lookup of the constructor raised
LookupRaised == ctor.calls = << Ev("model_info", "false") >>

\* C16: the weight-aware strategy is selected exactly when some file of the
\* manifest ends in .safetensors or .bin, the generic strategy otherwise
C16_WeightAwareIffWeightFile ==
    (ctor.pc = "built" /\ LookupReturned)
        => (ctor.strategy = "SafetensorsStrategy"
                <=> \E f \in manifest : IsWeightFile(f))

\* C16, amended: the weight-aware strategy is selected exactly when the
\* lookup returned and some file of the manifest ends in .safetensors; every
\* other construction, a manifest whose only weight files are .bin included,
\* selects the generic strategy
C16_WeightAwareIffSafetensors ==
    ctor.pc = "built"
        => /\ ctor.strategy \in { "SafetensorsStrategy", "DefaultStrategy" }
           /\ ctor.strategy = "SafetensorsStrategy"
                <=> (LookupReturned
                     /\ \E f \in manifest : EndsWith(f, "safetensors"))

\* a manifest with pytorch_model.bin and no .safetensors file got the
\* generic strategy
C16_Witness ==
    /\ ctor.pc = "built"
    /\ LookupReturned
    /\ PytorchModelBin \in manifest
    /\ ~\E f \in manifest : EndsWith(f, "safetensors")
    /\ ctor.strategy = "DefaultStrategy"

\* C17: when the manifest lookup raises during strategy selection, the
\* constructor still returns a downloader, and its strategy is the generic one
C17_StrategyFallback ==
    (Constructed /\ LookupRaised)
        => /\ ctor.pc = "built"
           /\ ctor.error = "none"
           /\ ctor.strategy = "DefaultStrategy"

\* the lookup raised for a repository that holds model.safetensors
C17_Witness ==
    /\ ctor.pc = "built"
    /\ LookupRaised
    /\ ModelSafetensors \in manifest
    /\ ctor.strategy = "DefaultStrategy"

\* C14: after cleanup_incomplete no file matching *.incomplete or *.part*
\* is left in the cache directory, and a second run changes nothing
C14_CleanupPostcondition ==
    /\ cleanup.pc # "none" =>
          /\ \A f \in dir : ~EndsWith(f, "incomplete") /\ ~HasPartComponent(f)
          /\ dir \subseteq cleanup.before
    /\ cleanup.pc = "twice" => dir = cleanup.before

\* the first run found markers of both patterns and removed them, a second
\* run has followed
C14_Witness ==
    /\ cleanup.pc = "twice"
    /\ { IncompleteMarker, PartMarker } \subseteq cleanup.first
    /\ dir # cleanup.first
    /\ dir = { ConfigJson, ModelSafetensors }

\* C15: every file named *.safetensors, *.bin, *.json, *.txt or *.md that
\* was in the cache directory before cleanup_incomplete is there after it
C15_CleanupFrame ==
    cleanup.pc # "none" =>
        \A f \in cleanup.before :
            (IsWeightFile(f) \/ IsConfigFile(f)) => f \in dir

\* C18: when the manifest lookup returns and the cache volume can be queried,
\* ensure_space returns true exactly when 10 * available >= 11 * total, the
\* total being the sum of the manifest's file sizes
C18_SpaceCheckResult ==
    (/\ DoneDownload /\ impl = "script"
     /\ CountRet("model_info", "true") = 1)
    => CountRet("ensure_space", Bool(10 * available >= 11 * Sum(manifest))) = 1

\* C19: when the manifest lookup or the query of the cache volume fails
\* inside ensure_space, ensure_space returns false, and download() returns its
\* failure without a transfer
C19_SpaceCheckNeverThrows ==
    (/\ DoneDownload /\ impl = "script"
     /\ Count("model_info") > 0
     /\ CountRet("model_info", "false") > 0 \/ ~PathHasStatvfs)
    => /\ CountRet("ensure_space", "false") = Count("model_info")
       /\ Count("snapshot_download") = 0
       /\ result = InsufficientSpace

\* the lookup raised in the space check of a download() that found no cache
C19_Witness ==
    /\ DoneDownload
    /\ impl = "script"
    /\ trace = << Ev("validate_cache", "false"), Ev("model_info", "false"),
                  Ev("ensure_space", "false") >>
    /\ ~result.success

\* now - maxAgeDays days, for the call that ran
Threshold == evict.current_time - evict.max_age * 86400

\* a top-level cache entry: a directory made by CacheManager.get_model_path
IsCacheEntry(e) == e.name[1] = "models--"

\* C20: cleanup_strategy(max_age) removes every cache entry of base_dir whose
\* mtime is before now - max_age days, and no entry whose mtime is at or after
\* that time; what is not a cache entry stays
C20_EvictionThreshold ==
    evict.pc = "done" =>
        /\ \A e \in evict.before :
             IF IsCacheEntry(e)
             THEN (e \notin base_dir) <=> (e.st_mtime < Threshold)
             ELSE e \in base_dir
        /\ base_dir \subseteq evict.before

\* with max_age = 30 the entry one second older than the threshold is gone,
\* the entry modified at the threshold is kept
C20_Witness ==
    /\ evict.pc = "done"
    /\ evict.max_age = 30
    /\ [name |-> << "models--", "gpt2" >>, st_mtime |-> 7999]
         \in evict.before \ base_dir
    /\ [name |-> << "models--", "test--model" >>, st_mtime |-> 8000]
         \in base_dir

\* C21: every entry cleanup_strategy removes has its rmtree in the log of the
\* call, and before each rmtree of an entry stands a log record naming it
C21_AuditBeforeDelete ==
    /\ \A e \in evict.before \ base_dir :
         \E j \in DOMAIN evict.log : evict.log[j] = Ev("rmtree", e.name)
    /\ \A j \in DOMAIN evict.log :
         evict.log[j].op = "rmtree" =>
             \E i \in 1..(j - 1) :
                 evict.log[i] = Ev("logger.info", evict.log[j].ret)

\* two entries were removed in one call
C21_Witness ==
    /\ evict.pc = "done"
    /\ Cardinality(evict.before \ base_dir) = 2
    /\ Len(evict.log) = 4

\* the characters of id with "--" in the place of every "/"
Slashless(id) == [i \in 1..Len(id) |-> IF id[i] = "/" THEN "--" ELSE id[i]]

\* get_model_path is a function of model_id and touches no file
PathIsPure ==
    /\ \A i, j \in DOMAIN lookup.calls :
         lookup.calls[i].id = lookup.calls[j].id
             => lookup.calls[i].path = lookup.calls[j].path
    /\ lookup.pc # "none" => lookup.fs = << dir, base_dir >>

\* C22: get_model_path is a function of the identifier without effect on the
\* file system, and returns the directory under the cache root whose name is
\* the identifier with "--" for every "/"
C22_PathNaming ==
    /\ PathIsPure
    /\ \A i \in DOMAIN lookup.calls :
         lookup.calls[i].path.name = Slashless(lookup.calls[i].id)

\* C22, amended: the name of the directory is the identifier with "--" for
\* every "/" in cache/manager.py, where the directory lies in the models
\* directory of the cache root, and that name after the prefix "models--" in
\* scripts/download_model.py, where it lies in the cache root
C22_PathNamingPerManager ==
    /\ PathIsPure
    /\ \A i \in DOMAIN lookup.calls :
         LET c == lookup.calls[i]
         IN  IF impl = "hf"
             THEN c.path = [parent |-> "models_dir", name |-> Slashless(c.id)]
             ELSE c.path = [parent |-> "base_dir",
                            name |-> << "models--" >> \o Slashless(c.id)]

\* the script's CacheManager was asked twice for org/name
C22_Witness ==
    /\ impl = "script"
    /\ lookup.pc = "twice"
    /\ lookup.calls[1].id = << "org", "/", "name" >>
    /\ lookup.calls[2].id = << "org", "/", "name" >>
    /\ lookup.calls[2].path.name = << "models--", "org", "--", "name" >>

HasDashes(id) == \E k \in DOMAIN id : id[k] = "--"

C23_ExitCodes ==
    cli.pc = "exited" =>
        /\ cli.exit_code \in { 0, 1 }
        /\ cli.exit_code = 0 <=> cli.succeeded

\* C24: when the transfer of an hf download raises a connection error on its
\* first invocation and would succeed on the second, with a directory that
\* verifies, download returns True after exactly 2 invocations
C24_ConnectionErrorRetried ==
    (/\ DoneDownload /\ impl = "hf"
     /\ Count("snapshot_download") > 0
     /\ plan = [err |-> "ConnectionError", fails |-> 1]
     /\ _verify_model(dir \cup manifest))
    => (result.success /\ Count("snapshot_download") = 2)

\* C25: when func fails on its first k-1 invocations and succeeds on the k-th,
\* k <= max_retries, RetryPolicy.execute returns the value of that invocation
\* after exactly k invocations and k-1 sleeps of the policy's delay
C25_FirstSuccessReturned ==
    (op = "execute" /\ plan.fails + 1 <= policy.max_retries) =>
        /\ Count("func") <= plan.fails + 1
        /\ CountRet("func", "ok") <= 1
        /\ pc = "done" =>
             /\ result = Success
             /\ Count("func") = plan.fails + 1
             /\ trace[Len(trace)] = Ev("func", "ok")
             /\ Len(delays) = plan.fails
             /\ \A i \in DOMAIN delays : delays[i] = policy.delay

\* func failed twice and succeeded on the third and last invocation allowed
C25_Witness ==
    /\ DoneOf("execute")
    /\ plan.fails = 2
    /\ policy.max_retries = 3
    /\ result = Success
    /\ Count("func") = 3
    /\ Len(delays) = 2

\* the delays slept so far never decrease
NonDecreasing == \A i, j \in DOMAIN delays : i <= j => delays[i] <= delays[j]

\* C26: in a run with at least two retries, of hf download or of RetryPolicy,
\* the delays before successive retries do not decrease, and the delay before
\* the second retry is greater than the delay before the first
C26_BackoffGrowth ==
    (op \in { "download", "execute" } /\ Len(delays) >= 2) =>
        /\ NonDecreasing
        /\ delays[2] > delays[1]

\* C26, amended: hf download sleeps 1 second before its first retry and twice
\* the previous delay before each later one; RetryPolicy.execute, and with it
\* the script's download(), sleeps the one delay of the policy before every
\* retry, so its delays do not decrease and do not grow either
C26_BackoffPerDownloader ==
    /\ NonDecreasing
    /\ (op = "download" /\ impl = "hf") =>
          /\ Len(delays) >= 1 => delays[1] = 1
          /\ \A i \in 1..(Len(delays) - 1) : delays[i + 1] = 2 * delays[i]
    /\ (op = "execute" \/ (op = "download" /\ impl = "script")) =>
          \A i \in DOMAIN delays : delays[i] = policy.delay

\* an hf download has slept before its second retry
C26_Witness ==
    /\ op = "download"
    /\ impl = "hf"
    /\ delays = << 1, 2 >>

\* the allow-list of SafetensorsStrategy
Allowed(f) == IsWeightFile(f) \/ IsConfigFile(f)

\* C27: a transfer of a downloader whose selected strategy is the weight-aware
\* one brings only files into the cache directory that match the weight and
\* config patterns
C27_SelectedStrategyTransfers ==
    (/\ ctor.pc = "built"
     /\ ctor.strategy = "SafetensorsStrategy"
     /\ CountRet("snapshot_download", "ok") > 0)
    => \A f \in dir \cap manifest : Allowed(f)

\* a directory with model files, no *.incomplete file and no config or
\* tokenizer file
WeightOnly(d) ==
    /\ \E f \in d : EndsWith(f, "safetensors") \/ EndsWith(f, "bin")
    /\ \A f \in d : ~EndsWith(f, "incomplete")
    /\ d \cap { ConfigJson, TokenizerJson, TokenizerConfigJson } = {}

\* C28: validate_cache answers True exactly for the directories with a
\* *.safetensors or *.bin file and no *.incomplete file, config and tokenizer
\* files or not; a download() whose validate_cache answered True returns
\* success with no space check and no transfer.
C28_WeightOnlyCacheAccepted ==
    impl = "script" =>
        /\ validate_cache(dir) =
               (/\ \E f \in dir : EndsWith(f, "safetensors") \/ EndsWith(f, "bin")
                /\ \A f \in dir : ~EndsWith(f, "incomplete"))
        /\ (/\ DoneDownload
            /\ trace[1] = Ev("validate_cache", "true"))
           => (/\ result.success
               /\ Len(trace) = 1
               /\ Count("ensure_space") = 0
               /\ Count("model_info") = 0
               /\ Count("snapshot_download") = 0)

C28_Witness ==
    /\ impl = "script"
    /\ DoneDownload
    /\ WeightOnly(dir)
    /\ trace = << Ev("validate_cache", "true") >>
    /\ result.success

\* the events that record a verification of the target directory
VerificationOps ==
    { "validate_cache", "validate_after", "_verify_model", "verify_after" }

\* the verification performed last, 0 without one
LastVerification ==
    LET S == { i \in DOMAIN trace : trace[i].op \in VerificationOps }
    IN  IF S = {} THEN 0 ELSE CHOOSE i \in S : \A j \in S : j <= i

=========================================================================
